---- MODULE Spec2Model ----
(***************************************************************************)
(* Model of the loan amortization engine, class LoanAmortizationSchedule   *)
(* (src/src/interfaces/loan-parameters.interface.ts, lines 98-724).        *)
(*                                                                         *)
(* Representation of JavaScript numbers.  TLC has 32-bit integers and no   *)
(* floating point, so every number is a fixed-point integer:               *)
(*   - money (balances, payments, interest, equity) counts units of        *)
(*     1/1000 cent: Cent = 1000 units, Dollar = 100000 units;              *)
(*   - assetValue counts whole dollars (so that MAX_ASSET_VALUE fits);     *)
(*   - percentagePutDown counts 1/1000 percent (20% is 20000);             *)
(*   - interestRate counts percent (5 is 5%), termInYears counts years;    *)
(*   - loanToValue counts 1/10000 (0.8 is 8000), and the two percentages   *)
(*     of a statement count 1/10000 percent (80% is 800000).               *)
(* A product or quotient that a double rounds at its 53rd bit is rounded   *)
(* here to the nearest unit; x.toFixed(d) rounds half away from zero.      *)
(***************************************************************************)
EXTENDS Integers, Sequences, FiniteSets, TLC

\* ------------------------------------------------------------------------
\* Number representation
\* ------------------------------------------------------------------------

\* resolution of toFixed(2) on a money value, in units
Cent == 1000

Dollar == 100 * Cent

\* resolution of toFixed(2) on a percentage, in units of 1/10000 percent
PctCent == 100

\* one percent of percentagePutDown, in its units of 1/1000 percent
PctUnit == 1000

\* money units of a dollar per unit (1/10000) of loanToValue
RatioDiv == Dollar \div 10000

\* fixed-point scale of Math.pow's result
PowScale == 100000000

Abs(x) == IF x < 0 THEN -x ELSE x

\* <<q, r>> with a * b = q * c + r and 0 <= r < c, for a, b >= 0 and c > 0,
\* computed bit by bit so that no intermediate value leaves 32 bits
RECURSIVE MulDiv(_, _, _)
MulDiv(a, b, c) ==
  IF a = 0 \/ b = 0 THEN <<0, 0>>
  ELSE LET h == MulDiv(a \div 2, b, c)
           t == 2 * h[2] + (a % 2) * b
       IN  <<2 * h[1] + (t \div c), t % c>>

\* a * b / c rounded to the nearest integer (half up), a, b >= 0, c > 0
MulDivRound(a, b, c) ==
  LET h == MulDiv(a, b, c)
  IN  h[1] + (IF 2 * h[2] >= c THEN 1 ELSE 0)

\* x * n / d rounded to the nearest integer, for x >= 0, small n >= 0, d > 0
\* (x is split so that x * n is never formed)
MulSmall(x, n, d) ==
  (x \div d) * n + (((x % d) * n + (d \div 2)) \div d)

\* parseFloat(x.toFixed(..)): x rounded to the nearest multiple of q,
\* a tie going away from zero
ToFixed(x, q) ==
  IF x >= 0 THEN ((x + (q \div 2)) \div q) * q
  ELSE -(((-x + (q \div 2)) \div q) * q)

\* x / d rounded to the nearest integer, a tie going away from zero (a
\* quotient that is then cut by toFixed), d > 0
DivFixed(x, d) ==
  IF x >= 0 THEN (2 * x + d) \div (2 * d)
  ELSE -((2 * (-x) + d) \div (2 * d))

\* ------------------------------------------------------------------------
\* LOAN_CONSTRAINTS
\* ------------------------------------------------------------------------

MAX_TERM_YEARS == 30

MIN_TERM_YEARS == 5

MAX_INTEREST_RATE == 30

MIN_INTEREST_RATE == 0

MAX_ASSET_VALUE == 1000000000

MIN_ASSET_VALUE == 1000

\* ------------------------------------------------------------------------
\* Construction
\* ------------------------------------------------------------------------

\* params.minimumPayment is <<>> when undefined and <<v>> when given
undefined == <<>>

\* validateInputs letting an asset of exactly MIN_ASSET_VALUE through
validateInputsFromMinimum(params) ==
  IF params.assetValue < MIN_ASSET_VALUE THEN "assetValue"
  ELSE IF params.assetValue > MAX_ASSET_VALUE THEN "assetValue"
  ELSE IF params.percentagePutDown < 0 \/ params.percentagePutDown > 100 * PctUnit
    THEN "percentagePutDown"
  ELSE IF params.interestRate < MIN_INTEREST_RATE THEN "interestRate"
  ELSE IF params.interestRate > MAX_INTEREST_RATE THEN "interestRate"
  ELSE IF params.termInYears < MIN_TERM_YEARS THEN "termInYears"
  ELSE IF params.termInYears > MAX_TERM_YEARS THEN "termInYears"
  ELSE IF params.minimumPayment # undefined /\ params.minimumPayment[1] <= 0
    THEN "minimumPayment"
  ELSE ""

\* validateInputs looking at the term before the rate
validateInputsTermFirst(params) ==
  IF params.assetValue <= MIN_ASSET_VALUE THEN "assetValue"
  ELSE IF params.assetValue > MAX_ASSET_VALUE THEN "assetValue"
  ELSE IF params.percentagePutDown < 0 \/ params.percentagePutDown > 100 * PctUnit
    THEN "percentagePutDown"
  ELSE IF params.termInYears < MIN_TERM_YEARS THEN "termInYears"
  ELSE IF params.termInYears > MAX_TERM_YEARS THEN "termInYears"
  ELSE IF params.interestRate < MIN_INTEREST_RATE THEN "interestRate"
  ELSE IF params.interestRate > MAX_INTEREST_RATE THEN "interestRate"
  ELSE IF params.minimumPayment # undefined /\ params.minimumPayment[1] <= 0
    THEN "minimumPayment"
  ELSE ""

\* the field named by the LoanValidationError that validateInputs throws,
\* or "" when it returns normally
validateInputs(params) ==
  IF params.assetValue <= MIN_ASSET_VALUE THEN "assetValue"
  ELSE IF params.assetValue > MAX_ASSET_VALUE THEN "assetValue"
  ELSE IF params.percentagePutDown < 0 \/ params.percentagePutDown > 100 * PctUnit
    THEN "percentagePutDown"
  ELSE IF params.interestRate < MIN_INTEREST_RATE THEN "interestRate"
  ELSE IF params.interestRate > MAX_INTEREST_RATE THEN "interestRate"
  ELSE IF params.termInYears < MIN_TERM_YEARS THEN "termInYears"
  ELSE IF params.termInYears > MAX_TERM_YEARS THEN "termInYears"
  ELSE IF params.minimumPayment # undefined /\ params.minimumPayment[1] <= 0
    THEN "minimumPayment"
  ELSE ""

\* calculateDownPayment with the amount cut, not rounded, to cents
calculateDownPaymentTruncated(assetValue, percentagePutDown) ==
  ((assetValue * percentagePutDown) \div Cent) * Cent

\* assetValue * (percentagePutDown / 100), to cents.  A dollar times 1/1000
\* percent is one unit of money, so the product is exact before toFixed.
calculateDownPayment(assetValue, percentagePutDown) ==
  ToFixed(assetValue * percentagePutDown, Cent)

calculateLoanAmount(assetValue, downPayment) ==
  ToFixed(assetValue * Dollar - downPayment, Cent)

\* Math.pow(base, n) at scale PowScale, by repeated squaring
RECURSIVE Pow(_, _)
Pow(base, n) ==
  IF n = 0 THEN PowScale
  ELSE LET h  == Pow(base, n \div 2)
           sq == MulDivRound(h, h, PowScale)
       IN  IF n % 2 = 1 THEN MulDivRound(sq, base, PowScale) ELSE sq

numberOfPayments(termInYears) == termInYears * 12

calculateStandardMonthlyPayment(loanAmount, interestRate, termInYears) ==
  IF interestRate = 0
    THEN MulSmall(loanAmount, 1, numberOfPayments(termInYears))
    ELSE LET pw == Pow(PowScale + MulSmall(PowScale, interestRate, 1200),
                       numberOfPayments(termInYears))
         IN  ToFixed(MulDivRound(MulSmall(loanAmount, interestRate, 1200),
                                 pw, pw - PowScale), Cent)

\* the instance the constructor builds from params that validateInputs accepts
NewInstance(params) ==
  LET downPayment == calculateDownPayment(params.assetValue, params.percentagePutDown)
      loanAmount  == calculateLoanAmount(params.assetValue, downPayment)
  IN  [assetValue        |-> params.assetValue,
       percentagePutDown |-> params.percentagePutDown,
       interestRate      |-> params.interestRate,
       termInYears       |-> params.termInYears,
       downPayment       |-> downPayment,
       loanAmount        |-> loanAmount,
       minimumPayment    |->
         IF params.minimumPayment # undefined
           THEN params.minimumPayment[1]
           ELSE calculateStandardMonthlyPayment(loanAmount, params.interestRate,
                                                params.termInYears),
       extraPayments     |-> <<>>]

\* ------------------------------------------------------------------------
\* Schedule generation
\* ------------------------------------------------------------------------

\* totalMonths with the loop bound one month too far
totalMonthsOffByOne(this) == this.termInYears * 12 + 1

totalMonths(this) == this.termInYears * 12

RECURSIVE SumExtra(_, _, _)
SumExtra(extraPayments, month, k) ==
  IF k > Len(extraPayments) THEN 0
  ELSE (IF month >= extraPayments[k].startMonth
          THEN extraPayments[k].extraAmount ELSE 0)
       + SumExtra(extraPayments, month, k + 1)

\* calculateExtraPaymentsForMonth taking the extra payments off the payment
calculateExtraPaymentsForMonthNegated(this, month) ==
  -SumExtra(this.extraPayments, month, 1)

\* calculateExtraPaymentsForMonth starting each extra payment a month late
calculateExtraPaymentsForMonthLate(this, month) ==
  SumExtra(this.extraPayments, month - 1, 1)

\* SumExtra counting, of the payments of one startMonth, only the last
RECURSIVE SumExtraDistinct(_, _, _)
SumExtraDistinct(extraPayments, month, k) ==
  IF k > Len(extraPayments) THEN 0
  ELSE (IF /\ month >= extraPayments[k].startMonth
           /\ \A j \in (k + 1)..Len(extraPayments) :
                extraPayments[j].startMonth # extraPayments[k].startMonth
          THEN extraPayments[k].extraAmount ELSE 0)
       + SumExtraDistinct(extraPayments, month, k + 1)

\* calculateExtraPaymentsForMonth with one payment for each startMonth
calculateExtraPaymentsForMonthDistinct(this, month) ==
  SumExtraDistinct(this.extraPayments, month, 1)

\* SumExtra counting a payment in its startMonth only
RECURSIVE SumExtraOnce(_, _, _)
SumExtraOnce(extraPayments, month, k) ==
  IF k > Len(extraPayments) THEN 0
  ELSE (IF month = extraPayments[k].startMonth
          THEN extraPayments[k].extraAmount ELSE 0)
       + SumExtraOnce(extraPayments, month, k + 1)

\* calculateExtraPaymentsForMonth applying a payment in its startMonth only
calculateExtraPaymentsForMonthOnce(this, month) ==
  SumExtraOnce(this.extraPayments, month, 1)

\* the amount of the last payment of the list that is in force in the month
RECURSIVE LatestExtra(_, _, _)
LatestExtra(extraPayments, month, k) ==
  IF k = 0 THEN 0
  ELSE IF month >= extraPayments[k].startMonth THEN extraPayments[k].extraAmount
  ELSE LatestExtra(extraPayments, month, k - 1)

\* calculateExtraPaymentsForMonth with a later payment replacing the earlier
calculateExtraPaymentsForMonthLatest(this, month) ==
  LatestExtra(this.extraPayments, month, Len(this.extraPayments))

\* calculateExtraPaymentsForMonth starting each extra payment a month early
calculateExtraPaymentsForMonthEarly(this, month) ==
  SumExtra(this.extraPayments, month + 1, 1)

calculateExtraPaymentsForMonth(this, month) ==
  SumExtra(this.extraPayments, month, 1)

\* calculateEquityMetrics taking the ratios over the loan amount
calculateEquityMetricsOfLoan(this, endingBalance) ==
  LET loanToValue == DivFixed(endingBalance, (this.loanAmount \div Dollar + 1) * RatioDiv)
      equityValue == this.assetValue * Dollar - endingBalance
  IN  [loanToValue           |-> loanToValue,
       loanToValuePercentage |-> ToFixed(loanToValue * 100, PctCent),
       equityValue           |-> equityValue,
       equityPercentage      |->
         DivFixed(equityValue, (this.loanAmount \div Dollar + 1) * RatioDiv) * PctCent]

\* endingBalance / assetValue is endingBalance units over assetValue * Dollar
\* units; at 4 decimals that is endingBalance over assetValue * RatioDiv
calculateEquityMetrics(this, endingBalance) ==
  LET loanToValue == DivFixed(endingBalance, this.assetValue * RatioDiv)
      equityValue == this.assetValue * Dollar - endingBalance
  IN  [loanToValue           |-> loanToValue,
       loanToValuePercentage |-> ToFixed(loanToValue * 100, PctCent),
       equityValue           |-> equityValue,
       equityPercentage      |->
         DivFixed(equityValue, this.assetValue * RatioDiv) * PctCent]

\* ClampPayment clamping the payment of the last month of the term only
ClampPaymentLastMonthOnly(this, month, startingBalance, interest, payment) ==
  IF month = totalMonths(this)
    THEN startingBalance + interest
    ELSE payment

\* the payment of a month after the final-payment clamp
ClampPayment(this, month, startingBalance, interest, payment) ==
  IF month = totalMonths(this) \/ startingBalance + interest <= payment
    THEN startingBalance + interest
    ELSE payment

\* Breakdown with the principal taken from the payment before the clamp
BreakdownBeforeClamp(this, startingBalance, interest, payment) ==
  [amountTowardInterest  |-> interest,
   amountTowardPrincipal |-> this.minimumPayment - interest,
   endingBalance         |-> startingBalance - (payment - interest)]

\* Breakdown with the whole payment counted as principal
BreakdownAllPrincipal(this, startingBalance, interest, payment) ==
  [amountTowardInterest  |-> interest,
   amountTowardPrincipal |-> payment,
   endingBalance         |-> startingBalance - (payment - interest)]

\* Breakdown with the two amounts swapped
BreakdownSwapped(this, startingBalance, interest, payment) ==
  [amountTowardInterest  |-> payment - interest,
   amountTowardPrincipal |-> interest,
   endingBalance         |-> startingBalance - (payment - interest)]

\* the payment breakdown of a month
Breakdown(this, startingBalance, interest, payment) ==
  [amountTowardInterest  |-> interest,
   amountTowardPrincipal |-> payment - interest,
   endingBalance         |-> startingBalance - (payment - interest)]

\* Month with the starting balance cut, not rounded, to cents
MonthStartingTruncated(this, includeExtraPayments, month, balance) ==
  LET startingBalance == balance
      interest == MulSmall(startingBalance, this.interestRate, 1200)
      payment == ClampPayment(this, month, startingBalance, interest,
                   this.minimumPayment
                   + (IF includeExtraPayments
                        THEN calculateExtraPaymentsForMonth(this, month) ELSE 0))
      b == Breakdown(this, startingBalance, interest, payment)
      m == calculateEquityMetrics(this, b.endingBalance)
  IN  [balance |-> b.endingBalance,
       statement |->
         [month                 |-> month,
          startingBalance       |-> (startingBalance \div Cent) * Cent,
          payment               |-> ToFixed(payment, Cent),
          amountTowardInterest  |-> ToFixed(b.amountTowardInterest, Cent),
          amountTowardPrincipal |-> ToFixed(b.amountTowardPrincipal, Cent),
          endingBalance         |-> ToFixed(b.endingBalance, Cent),
          loanToValue           |-> m.loanToValue,
          loanToValuePercentage |-> m.loanToValuePercentage,
          equityValue           |-> ToFixed(m.equityValue, Cent),
          equityPercentage      |-> m.equityPercentage]]

\* the Statement pushed for a month that starts with the given balance,
\* with the unrounded ending balance carried to the next month
Month(this, includeExtraPayments, month, balance) ==
  LET startingBalance == balance
      interest == MulSmall(startingBalance, this.interestRate, 1200)
      payment == ClampPayment(this, month, startingBalance, interest,
                   this.minimumPayment
                   + (IF includeExtraPayments
                        THEN calculateExtraPaymentsForMonth(this, month) ELSE 0))
      b == Breakdown(this, startingBalance, interest, payment)
      m == calculateEquityMetrics(this, b.endingBalance)
  IN  [balance |-> b.endingBalance,
       statement |->
         [month                 |-> month,
          startingBalance       |-> ToFixed(startingBalance, Cent),
          payment               |-> ToFixed(payment, Cent),
          amountTowardInterest  |-> ToFixed(b.amountTowardInterest, Cent),
          amountTowardPrincipal |-> ToFixed(b.amountTowardPrincipal, Cent),
          endingBalance         |-> ToFixed(b.endingBalance, Cent),
          loanToValue           |-> m.loanToValue,
          loanToValuePercentage |-> m.loanToValuePercentage,
          equityValue           |-> ToFixed(m.equityValue, Cent),
          equityPercentage      |-> m.equityPercentage]]

\* the for loop of generateAmortizationSchedule over the months lo..hi, from
\* the loop state st = [balance, schedule, paidOff]; paidOff records the break.
\* The months run in order, one after the other; the range is halved only to
\* keep the evaluation stack shallow.
RECURSIVE Loop(_, _, _, _, _)
Loop(this, includeExtraPayments, lo, hi, st) ==
  IF st.paidOff \/ lo > hi THEN st
  ELSE IF lo = hi
    THEN LET r == Month(this, includeExtraPayments, lo, st.balance)
         IN  [balance  |-> r.balance,
              schedule |-> Append(st.schedule, r.statement),
              paidOff  |-> r.balance <= Cent]
    ELSE LET mid == (lo + hi) \div 2
             a   == Loop(this, includeExtraPayments, lo, mid, st)
         IN  IF a.paidOff THEN a
             ELSE Loop(this, includeExtraPayments, mid + 1, hi, a)

generateAmortizationSchedule(this, includeExtraPayments) ==
  Loop(this, includeExtraPayments, 1, totalMonths(this),
       [balance |-> this.loanAmount, schedule |-> <<>>, paidOff |-> FALSE]).schedule

generateSchedule(this) == generateAmortizationSchedule(this, FALSE)

\* generateAdjustedSchedule of the earlier design, which produced no schedule
\* for an instance without extra payments
generateAdjustedScheduleStrict(this) ==
  IF Len(this.extraPayments) = 0
    THEN <<>>
    ELSE generateAmortizationSchedule(this, TRUE)

generateAdjustedSchedule(this) ==
  IF Len(this.extraPayments) = 0
    THEN generateAmortizationSchedule(this, FALSE)
    ELSE generateAmortizationSchedule(this, TRUE)

\* ------------------------------------------------------------------------
\* Extra payments
\* ------------------------------------------------------------------------

\* InsertByStartMonth putting x before the elements of its own startMonth
RECURSIVE InsertByStartMonthBeforeEquals(_, _)
InsertByStartMonthBeforeEquals(sorted, x) ==
  IF sorted = <<>> THEN <<x>>
  ELSE IF sorted[Len(sorted)].startMonth < x.startMonth THEN Append(sorted, x)
  ELSE Append(InsertByStartMonthBeforeEquals(SubSeq(sorted, 1, Len(sorted) - 1), x),
              sorted[Len(sorted)])

\* Array.prototype.sort with the comparator a.startMonth - b.startMonth
\* (a stable sort): x goes after every element whose startMonth is <= its own
RECURSIVE InsertByStartMonth(_, _)
InsertByStartMonth(sorted, x) ==
  IF sorted = <<>> THEN <<x>>
  ELSE IF sorted[Len(sorted)].startMonth <= x.startMonth THEN Append(sorted, x)
  ELSE Append(InsertByStartMonth(SubSeq(sorted, 1, Len(sorted) - 1), x),
              sorted[Len(sorted)])

RECURSIVE SortByStartMonth(_)
SortByStartMonth(list) ==
  IF list = <<>> THEN <<>>
  ELSE InsertByStartMonth(SortByStartMonth(SubSeq(list, 1, Len(list) - 1)),
                          list[Len(list)])

\* the error addExtraPayment throws for its arguments, or "" when it goes on
\* to build the new instance (startMonth is an integer in this model)
ExtraPaymentError(this, extraAmount, startMonth) ==
  IF extraAmount <= 0 THEN "InvalidExtraPaymentError"
  ELSE IF startMonth < 1 \/ startMonth > this.termInYears * 12
    THEN "InvalidExtraPaymentError"
  ELSE ""

\* CopyParams leaving the payment to be computed again by the constructor
CopyParamsWithoutPayment(this) ==
  [assetValue        |-> this.assetValue,
   percentagePutDown |-> this.percentagePutDown,
   interestRate      |-> this.interestRate,
   termInYears       |-> this.termInYears,
   minimumPayment    |-> undefined]

\* the parameters addExtraPayment hands to the constructor
CopyParams(this) ==
  [assetValue        |-> this.assetValue,
   percentagePutDown |-> this.percentagePutDown,
   interestRate      |-> this.interestRate,
   termInYears       |-> this.termInYears,
   minimumPayment    |-> <<this.minimumPayment>>]

allExtraPayments(this, extraAmount, startMonth) ==
  SortByStartMonth(Append(this.extraPayments,
                          [extraAmount |-> extraAmount, startMonth |-> startMonth]))

\* ------------------------------------------------------------------------
\* Position by date.  A Date is the record of its local calendar fields:
\* year (getFullYear), month (getMonth, 0 for January) and date (getDate).
\* ------------------------------------------------------------------------

\* units of yearsRemaining per year
YearUnit == 10000

getFullYear(d) == d.year

getMonth(d) == d.month

\* Math.min
Min(a, b) == IF a < b THEN a ELSE b

\* calculateMonthsBetween counting a month only once its day is reached
calculateMonthsBetweenByDay(startDate, endDate) ==
  (getFullYear(endDate) - getFullYear(startDate)) * 12
  + (getMonth(endDate) - getMonth(startDate))
  - (IF endDate.date < startDate.date THEN 1 ELSE 0)

calculateMonthsBetween(startDate, endDate) ==
  LET yearDiff  == getFullYear(endDate) - getFullYear(startDate)
      monthDiff == getMonth(endDate) - getMonth(startDate)
  IN  yearDiff * 12 + monthDiff

\* percentageComplete taken from the 1-based month
percentageCompleteOneBased(currentMonth, length) ==
  DivFixed((currentMonth + 1) * 100 * 100 * PctCent, length)

\* (currentMonth / schedule.length) * 100, in units of 1/10000 percent
percentageComplete(currentMonth, length) ==
  DivFixed(currentMonth * 100 * 100 * PctCent, length)

\* ElementAt reading the array from 1
ElementAtFromOne(schedule, currentMonth) ==
  IF currentMonth >= 1 /\ currentMonth <= Len(schedule)
    THEN <<schedule[currentMonth]>>
    ELSE undefined

\* schedule[currentMonth] of a 0-based index: <<row>>, or undefined when the
\* index is not one of the array
ElementAt(schedule, currentMonth) ==
  IF currentMonth >= 0 /\ currentMonth < Len(schedule)
    THEN <<schedule[currentMonth + 1]>>
    ELSE undefined

findPositionByDate(this, loanStartDate, currentDate) ==
  LET schedule         == generateAdjustedSchedule(this)
      monthsElapsed    == calculateMonthsBetween(loanStartDate, currentDate)
      currentMonth     == Min(monthsElapsed, Len(schedule) - 1)
      currentStatement == ElementAt(schedule, currentMonth)
      monthsRemaining  == Len(schedule) - currentMonth
      complete         == percentageComplete(currentMonth, Len(schedule))
  IN  [currentMonth        |-> currentMonth + 1,
       monthsElapsed       |-> monthsElapsed,
       monthsRemaining     |-> monthsRemaining,
       yearsRemaining      |-> DivFixed(monthsRemaining * YearUnit, 12),
       percentageComplete  |-> complete,
       percentageRemaining |-> 100 * 100 * PctCent - complete,
       statement           |-> currentStatement,
       currentBalance      |->
         IF currentStatement # undefined
           THEN currentStatement[1].endingBalance
           ELSE this.loanAmount]

\* ------------------------------------------------------------------------
\* The state machine.  instances is the heap of LoanAmortizationSchedule
\* objects of one loan (a handle is an index into it); result is the outcome
\* of the call the caller has just made, [op |-> "none"] between calls.
\* ------------------------------------------------------------------------

VARIABLES instances, result

vars == <<instances, result>>

\* the most instances a behaviour creates
MaxInstances == 3

AssetValues == {MIN_ASSET_VALUE, 1200, MAX_ASSET_VALUE + 1}

Percentages == {-1, 0, 100 * PctUnit + 1}

InterestRates == {-1, 0, 31}

Terms == {4, 5, 31}

\* no override, 0 and 5.004 dollars
MinimumPayments == {undefined, <<0>>, <<500400>>}

\* further loans on an asset of 1200 dollars: an override of 99.99951 dollars
\* at a zero rate; a third put down at 6 percent with an override; 6 percent;
\* the largest rate with an override below the interest of a month; all of it
\* put down; all of it put down over the longest term with an override
Loans ==
  {[assetValue |-> 1200, percentagePutDown |-> 0, interestRate |-> 0,
    termInYears |-> 5, minimumPayment |-> <<9999951>>],
   [assetValue |-> 1200, percentagePutDown |-> 33333, interestRate |-> 6,
    termInYears |-> 5, minimumPayment |-> <<500400>>],
   [assetValue |-> 1200, percentagePutDown |-> 0, interestRate |-> 6,
    termInYears |-> 5, minimumPayment |-> undefined],
   [assetValue |-> 1200, percentagePutDown |-> 0,
    interestRate |-> MAX_INTEREST_RATE, termInYears |-> 5,
    minimumPayment |-> <<500400>>],
   [assetValue |-> 1200, percentagePutDown |-> 100 * PctUnit, interestRate |-> 0,
    termInYears |-> 5, minimumPayment |-> undefined],
   [assetValue |-> 1200, percentagePutDown |-> 100 * PctUnit, interestRate |-> 0,
    termInYears |-> MAX_TERM_YEARS, minimumPayment |-> <<500400>>]}

\* the arguments tried on addExtraPayment: amounts of 0, 0.4 cent and 50
\* dollars, start months around the ends of a 60 month term
ExtraPaymentInputs ==
  {[extraAmount |-> 0,           startMonth |-> 1],
   [extraAmount |-> 400,         startMonth |-> 1],
   [extraAmount |-> 50 * Dollar, startMonth |-> 0],
   [extraAmount |-> 50 * Dollar, startMonth |-> 1],
   [extraAmount |-> 50 * Dollar, startMonth |-> 60],
   [extraAmount |-> 50 * Dollar, startMonth |-> 61]}

ParamSet ==
  [assetValue : AssetValues, percentagePutDown : Percentages,
   interestRate : InterestRates, termInYears : Terms,
   minimumPayment : MinimumPayments]
  \cup Loans

\* the dates tried on findPositionByDate: a current date in the month before
\* the start; the middle of 2022 from a start on the first and on the last of
\* January 2020; a current date long after every payoff
DateInputs ==
  {[loanStartDate |-> [year |-> 2020, month |-> 0,  date |-> 15],
    currentDate   |-> [year |-> 2019, month |-> 11, date |-> 31]],
   [loanStartDate |-> [year |-> 2020, month |-> 0,  date |-> 1],
    currentDate   |-> [year |-> 2022, month |-> 5,  date |-> 15]],
   [loanStartDate |-> [year |-> 2020, month |-> 0,  date |-> 31],
    currentDate   |-> [year |-> 2022, month |-> 5,  date |-> 15]],
   [loanStartDate |-> [year |-> 2020, month |-> 0,  date |-> 1],
    currentDate   |-> [year |-> 2060, month |-> 0,  date |-> 1]]}

Handles == 1..Len(instances)

Init ==
  /\ instances = <<>>
  /\ result = [op |-> "none"]

\* new LoanAmortizationSchedule(params), for the loan of this behaviour
Construct(params) ==
  /\ instances = <<>> /\ result.op = "none"
  /\ LET field == validateInputs(params)
     IN  IF field # ""
           THEN /\ result' = [op |-> "new", params |-> params,
                              threw |-> "LoanValidationError", field |-> field]
                /\ UNCHANGED instances
           ELSE /\ instances' = Append(instances, NewInstance(params))
                /\ result' = [op |-> "new", params |-> params,
                              threw |-> "", ret |-> Len(instances) + 1]

\* addExtraPayment pushing the payment onto the receiver's own array, which
\* the new instance then shares (the earlier, mutating design)
AddExtraPaymentInPlace(h, extraAmount, startMonth) ==
  /\ result.op = "none"
  /\ Len(instances) < MaxInstances
  /\ LET this  == instances[h]
         call  == [op |-> "addExtraPayment", this |-> h,
                   extraAmount |-> extraAmount, startMonth |-> startMonth]
         error == ExtraPaymentError(this, extraAmount, startMonth)
         field == validateInputs(CopyParams(this))
         all   == allExtraPayments(this, extraAmount, startMonth)
     IN  IF error # ""
           THEN /\ result' = call @@ [threw |-> error]
                /\ UNCHANGED instances
         ELSE IF field # ""
           THEN /\ result' = call @@ [threw |-> "LoanValidationError", field |-> field]
                /\ UNCHANGED instances
         ELSE /\ instances' =
                   Append([instances EXCEPT ![h].extraPayments = all],
                          [NewInstance(CopyParams(this)) EXCEPT !.extraPayments = all])
              /\ result' = call @@ [threw |-> "", ret |-> Len(instances) + 1]

\* instances[h].addExtraPayment(extraAmount, startMonth)
AddExtraPayment(h, extraAmount, startMonth) ==
  /\ result.op = "none"
  /\ Len(instances) < MaxInstances
  /\ LET this  == instances[h]
         call  == [op |-> "addExtraPayment", this |-> h,
                   extraAmount |-> extraAmount, startMonth |-> startMonth]
         error == ExtraPaymentError(this, extraAmount, startMonth)
         field == validateInputs(CopyParams(this))
     IN  IF error # ""
           THEN /\ result' = call @@ [threw |-> error]
                /\ UNCHANGED instances
         ELSE IF field # ""
           THEN /\ result' = call @@ [threw |-> "LoanValidationError", field |-> field]
                /\ UNCHANGED instances
         ELSE /\ instances' =
                   Append(instances,
                          [NewInstance(CopyParams(this)) EXCEPT
                             !.extraPayments =
                               allExtraPayments(this, extraAmount, startMonth)])
              /\ result' = call @@ [threw |-> "", ret |-> Len(instances) + 1]

\* instances[h].generateSchedule()
GenerateSchedule(h) ==
  /\ result.op = "none"
  /\ result' = [op |-> "generateSchedule", this |-> h,
                ret |-> generateSchedule(instances[h])]
  /\ UNCHANGED instances

\* generateAdjustedSchedule using up the extra payments of the instance
GenerateAdjustedScheduleConsuming(h) ==
  /\ result.op = "none"
  /\ result' = [op |-> "generateAdjustedSchedule", this |-> h,
                ret |-> generateAdjustedSchedule(instances[h])]
  /\ instances' = [instances EXCEPT ![h].extraPayments = <<>>]

\* instances[h].generateAdjustedSchedule()
GenerateAdjustedSchedule(h) ==
  /\ result.op = "none"
  /\ result' = [op |-> "generateAdjustedSchedule", this |-> h,
                ret |-> generateAdjustedSchedule(instances[h])]
  /\ UNCHANGED instances

\* instances[h].findPositionByDate(loanStartDate, currentDate)
FindPositionByDate(h, loanStartDate, currentDate) ==
  /\ result.op = "none"
  /\ result' = [op |-> "findPositionByDate", this |-> h,
                loanStartDate |-> loanStartDate, currentDate |-> currentDate,
                ret |-> findPositionByDate(instances[h], loanStartDate, currentDate)]
  /\ UNCHANGED instances

\* the caller is done with the outcome and goes on to its next call
Continue ==
  /\ result.op # "none"
  /\ result' = [op |-> "none"]
  /\ UNCHANGED instances

Next ==
  \/ \E params \in ParamSet : Construct(params)
  \/ \E h \in Handles, x \in ExtraPaymentInputs :
       AddExtraPayment(h, x.extraAmount, x.startMonth)
  \/ \E h \in Handles : GenerateSchedule(h)
  \/ \E h \in Handles : GenerateAdjustedSchedule(h)
  \/ \E h \in Handles, d \in DateInputs :
       FindPositionByDate(h, d.loanStartDate, d.currentDate)
  \/ Continue

Spec == Init /\ [][Next]_vars

\* ------------------------------------------------------------------------
\* Properties
\* ------------------------------------------------------------------------

IsSchedule == result.op \in {"generateSchedule", "generateAdjustedSchedule"}

IsStandard == result.op = "generateSchedule"

\* an adjusted schedule of an instance that carries extra payments
IsAdjusted ==
  /\ result.op = "generateAdjustedSchedule"
  /\ Len(instances[result.this].extraPayments) > 0

LastRow(rows) == rows[Len(rows)]

\* the sum of a field over the rows lo..hi, halving the range
RECURSIVE SumField(_, _, _, _)
SumField(rows, field, lo, hi) ==
  IF lo > hi THEN 0
  ELSE IF lo = hi THEN rows[lo][field]
  ELSE SumField(rows, field, lo, (lo + hi) \div 2)
       + SumField(rows, field, (lo + hi) \div 2 + 1, hi)

\* the sum of the payments less the sums of the interest and principal parts
AggregateGap(rows) ==
  SumField(rows, "payment", 1, Len(rows))
  - (SumField(rows, "amountTowardInterest", 1, Len(rows))
     + SumField(rows, "amountTowardPrincipal", 1, Len(rows)))

\* the extra payments of an instance in force in a month, summed
InForce(this, month) == SumExtra(this.extraPayments, month, 1)

\* a month at or after the start month of an extra payment of the instance
Started(this, month) ==
  \E k \in 1..Len(this.extraPayments) : month >= this.extraPayments[k].startMonth

\* C1: a schedule returned by generateSchedule() or generateAdjustedSchedule()
\* has at most termInYears * 12 rows, whatever the parameters, the
\* minimumPayment override and the extra payments.
C1_LengthWithinTerm ==
  IsSchedule => Len(result.ret) <= instances[result.this].termInYears * 12

\* a full-length adjusted schedule of an instance with an overridden payment
\* and an extra payment
C1_Witness ==
  /\ IsAdjusted
  /\ instances[result.this].minimumPayment = 500400
  /\ Len(result.ret) = instances[result.this].termInYears * 12

\* C2: the last row of generateSchedule() has endingBalance 0 as emitted,
\* whether the loop ends at month termInYears * 12 or on the one-cent exit.
C2_LastRowZero ==
  IsStandard => LastRow(result.ret).endingBalance = 0

\* C3: the first row of generateSchedule() has month 1 and a startingBalance
\* equal to loanAmount, which is assetValue less the down payment (assetValue
\* times percentagePutDown / 100, rounded to cents), rounded to cents.
C3_FirstRowStartsAtLoanAmount ==
  IsStandard =>
    LET this == instances[result.this]
    IN  /\ Len(result.ret) >= 1
        /\ result.ret[1].month = 1
        /\ result.ret[1].startingBalance = this.loanAmount
        /\ this.loanAmount =
             ToFixed(this.assetValue * Dollar
                     - ToFixed(this.assetValue * this.percentagePutDown, Cent), Cent)

\* a standard schedule of a loan whose down payment is not a whole number of
\* cents before it is rounded
C3_Witness ==
  /\ IsStandard
  /\ (instances[result.this].assetValue
      * instances[result.this].percentagePutDown) % Cent # 0
  /\ result.ret[1].startingBalance > 0

\* C4: in every row of every schedule the emitted amountTowardInterest plus
\* the emitted amountTowardPrincipal is within one cent of the emitted payment.
C4_RowSplitsPayment ==
  IsSchedule =>
    \A k \in 1..Len(result.ret) :
      Abs(result.ret[k].amountTowardInterest + result.ret[k].amountTowardPrincipal
          - result.ret[k].payment) <= Cent

\* a row whose parts, rounded one by one, miss the rounded payment by a cent
C4_Witness ==
  /\ IsSchedule
  /\ \E k \in 1..Len(result.ret) :
       Abs(result.ret[k].amountTowardInterest + result.ret[k].amountTowardPrincipal
           - result.ret[k].payment) = Cent

\* C5 as stated: over the whole of generateSchedule(), the sum of the payments
\* differs from the sum of the interest parts plus the sum of the principal
\* parts by less than 0.05.
C5_AggregateWithinTolerance ==
  IsStandard => Abs(AggregateGap(result.ret)) < 5 * Cent

\* C5 as amended: over the whole of generateSchedule(), the sum of the
\* payments differs from the sum of the interest parts plus the sum of the
\* principal parts by at most one cent per row.
C5_AggregateWithinCentPerRow ==
  IsStandard => Abs(AggregateGap(result.ret)) <= Len(result.ret) * Cent

\* a standard schedule whose sums are 0.05 or more apart
C5_Witness ==
  /\ IsStandard
  /\ Abs(AggregateGap(result.ret)) >= 5 * Cent

C7_StrictlyFewerRows ==
  IsAdjusted => Len(result.ret) < Len(generateSchedule(instances[result.this]))

\* C7 as amended: the adjusted schedule of an instance returned by
\* addExtraPayment has no more rows than the standard schedule.
C7_NoMoreRows ==
  IsAdjusted => Len(result.ret) <= Len(generateSchedule(instances[result.this]))

\* an adjusted schedule that is shorter than the standard one
C7_Witness ==
  /\ IsAdjusted
  /\ Len(result.ret) < Len(generateSchedule(instances[result.this]))

\* C8 as stated: every row of the adjusted schedule at or after the start
\* month of an extra payment has a payment strictly greater than the row of
\* the same month in the standard schedule, the last row included.
C8_PaymentStrictlyGreater ==
  IsAdjusted =>
    LET this == instances[result.this]
        std  == generateSchedule(this)
    IN  \A k \in 1..Len(result.ret) :
          Started(this, k) =>
            /\ k <= Len(std)
            /\ result.ret[k].payment > std[k].payment

\* C8 as amended: every row of the adjusted schedule at or after the start
\* month of an extra payment, other than its last row, has a payment no
\* smaller than the row of the same month in the standard schedule, and
\* strictly greater when the extra payments in force come to a cent or more.
C8_PaymentGreaterBeforeLastRow ==
  IsAdjusted =>
    LET this == instances[result.this]
        std  == generateSchedule(this)
    IN  \A k \in 1..(Len(result.ret) - 1) :
          Started(this, k) =>
            /\ k <= Len(std)
            /\ result.ret[k].payment >= std[k].payment
            /\ InForce(this, k) >= Cent => result.ret[k].payment > std[k].payment

\* an adjusted schedule with a row, not the last, that carries an extra payment
C8_Witness ==
  /\ IsAdjusted
  /\ \E k \in 1..(Len(result.ret) - 1) :
       /\ Started(instances[result.this], k)
       /\ InForce(instances[result.this], k) >= Cent

\* C9: addExtraPayment never changes its receiver.  No step changes an
\* instance that exists; across a call of addExtraPayment the receiver's
\* extra payments and both of its schedules stay what they were, and the
\* instance returned is a new one, not the receiver.
C9_ReceiverUnchanged ==
  [][/\ \A h \in Handles :
          h <= Len(instances') /\ instances'[h] = instances[h]
     /\ (result.op = "none" /\ result'.op = "addExtraPayment") =>
          LET h == result'.this
          IN  /\ instances'[h].extraPayments = instances[h].extraPayments
              /\ generateSchedule(instances'[h]) = generateSchedule(instances[h])
              /\ generateAdjustedSchedule(instances'[h])
                   = generateAdjustedSchedule(instances[h])
              /\ result'.threw = "" =>
                   /\ result'.ret \notin Handles
                   /\ result'.ret \in 1..Len(instances')
                   /\ instances'[result'.ret] # instances[h]
    ]_vars

\* a second extra payment added through a derived instance, the first
\* instance still without any
C9_Witness ==
  /\ result.op = "addExtraPayment" /\ result.threw = ""
  /\ result.this = 2 /\ result.ret = 3
  /\ Len(instances[1].extraPayments) = 0
  /\ Len(instances[2].extraPayments) = 1
  /\ Len(instances[3].extraPayments) = 2

\* C10: with interestRate = 0 every row of generateSchedule() has
\* amountTowardInterest 0 and amountTowardPrincipal equal to payment.
C10_ZeroRateAllPrincipal ==
  (IsStandard /\ instances[result.this].interestRate = 0) =>
    \A k \in 1..Len(result.ret) :
      /\ result.ret[k].amountTowardInterest = 0
      /\ result.ret[k].amountTowardPrincipal = result.ret[k].payment

\* a standard schedule of several rows at a zero rate
C10_Witness ==
  /\ IsStandard
  /\ instances[result.this].interestRate = 0
  /\ Len(result.ret) > 1
  /\ result.ret[1].payment > 0

\* the fields of the loan parameters in the order of their validation
FieldOrder ==
  <<"assetValue", "percentagePutDown", "interestRate", "termInYears",
    "minimumPayment">>

\* the value of a field of the parameters is outside its constraint
Violates(p, field) ==
  CASE field = "assetValue" ->
         ~(p.assetValue > MIN_ASSET_VALUE /\ p.assetValue <= MAX_ASSET_VALUE)
    [] field = "percentagePutDown" ->
         ~(p.percentagePutDown >= 0 /\ p.percentagePutDown <= 100 * PctUnit)
    [] field = "interestRate" ->
         ~(p.interestRate >= 0 /\ p.interestRate <= MAX_INTEREST_RATE)
    [] field = "termInYears" ->
         ~(p.termInYears >= MIN_TERM_YEARS /\ p.termInYears <= MAX_TERM_YEARS)
    [] field = "minimumPayment" ->
         ~(p.minimumPayment = undefined \/ p.minimumPayment[1] > 0)

InRange(p) == \A k \in 1..Len(FieldOrder) : ~Violates(p, FieldOrder[k])

IsConstruction == result.op = "new"

C12_FirstFailingField ==
  (IsConstruction /\ result.threw # "") =>
    \E k \in 1..Len(FieldOrder) :
      /\ result.field = FieldOrder[k]
      /\ Violates(result.params, FieldOrder[k])
      /\ \A j \in 1..(k - 1) : ~Violates(result.params, FieldOrder[j])

\* a failed construction with the rate, the term and the override all invalid,
\* which names the rate
C12_Witness ==
  /\ IsConstruction /\ result.threw = "LoanValidationError"
  /\ result.field = "interestRate"
  /\ Violates(result.params, "termInYears")
  /\ Violates(result.params, "minimumPayment")

IsAddition == result.op = "addExtraPayment"

\* C13: on an instance, addExtraPayment(amount, startMonth) fails if and only
\* if amount <= 0 or startMonth is not an integer in [1, termInYears * 12];
\* every failure is an InvalidExtraPaymentError, never a LoanValidationError,
\* and in every other case a new instance is returned.
C13_FailsOnlyOnBadArguments ==
  IsAddition =>
    LET this == instances[result.this]
    IN  /\ result.threw # "" <=>
             \/ result.extraAmount <= 0
             \/ result.startMonth \notin 1..(this.termInYears * 12)
        /\ result.threw \in {"", "InvalidExtraPaymentError"}
        /\ result.threw = "" =>
             result.ret \in Handles /\ result.ret # result.this

\* a list of extra payments in ascending order of startMonth
IsSorted(list) ==
  \A i, j \in 1..Len(list) : i < j => list[i].startMonth <= list[j].startMonth

\* the list without its k-th element
Without(list, k) == SubSeq(list, 1, k - 1) \o SubSeq(list, k + 1, Len(list))

\* C14: the extra payments of an instance are the stable sort by ascending
\* startMonth of the payments added, in the order they were added.  A new
\* loan has none; every instance's list is sorted; and each successful
\* addExtraPayment returns the receiver's list with the one payment more (none
\* merged or dropped), placed after every payment of the same or an earlier
\* startMonth and before every later one.
C14_StableSortOfAdditions ==
  /\ (IsConstruction /\ result.threw = "") =>
       instances[result.ret].extraPayments = <<>>
  /\ \A h \in Handles : IsSorted(instances[h].extraPayments)
  /\ (IsAddition /\ result.threw = "") =>
       LET old == instances[result.this].extraPayments
           new == instances[result.ret].extraPayments
           x   == [extraAmount |-> result.extraAmount,
                   startMonth |-> result.startMonth]
       IN  /\ Len(new) = Len(old) + 1
           /\ \E k \in 1..Len(new) :
                /\ new[k] = x
                /\ Without(new, k) = old
                /\ \A j \in 1..(k - 1) : new[j].startMonth <= x.startMonth
                /\ \A j \in (k + 1)..Len(new) : new[j].startMonth > x.startMonth

\* a payment added to an instance that has another payment of the same
\* startMonth and a different amount, which stays ahead of it
C14_Witness ==
  /\ IsAddition /\ result.threw = ""
  /\ LET new == instances[result.ret].extraPayments
     IN  /\ Len(new) = 2
         /\ new[1].startMonth = new[2].startMonth
         /\ new[1].extraAmount > new[2].extraAmount
         /\ new[2].extraAmount = result.extraAmount
         /\ new[1] = instances[result.this].extraPayments[1]

\* the list with its k-th and (k+1)-th payments, of one startMonth, made one
\* payment of their sum
Merged(list, k) ==
  SubSeq(list, 1, k - 1)
  \o <<[extraAmount |-> list[k].extraAmount + list[k + 1].extraAmount,
        startMonth  |-> list[k].startMonth]>>
  \o SubSeq(list, k + 2, Len(list))

\* the places of two neighbouring payments of one startMonth
Twins(list) ==
  {k \in 1..(Len(list) - 1) : list[k].startMonth = list[k + 1].startMonth}

C16_BaseParametersCopied ==
  (IsAddition /\ result.threw = "") =>
    LET this     == instances[result.this]
        returned == instances[result.ret]
    IN  /\ returned.assetValue = this.assetValue
        /\ returned.interestRate = this.interestRate
        /\ returned.termInYears = this.termInYears
        /\ returned.loanAmount = this.loanAmount
        /\ returned.minimumPayment = this.minimumPayment
        /\ generateSchedule(returned) = generateSchedule(this)

\* a second addition in a row, on a loan whose overridden payment is not the
\* payment the formula gives
C16_Witness ==
  /\ IsAddition /\ result.threw = ""
  /\ Len(instances[result.this].extraPayments) = 1
  /\ Len(instances[result.ret].extraPayments) = 2
  /\ instances[result.ret].minimumPayment = 500400
  /\ calculateStandardMonthlyPayment(instances[result.ret].loanAmount,
                                     instances[result.ret].interestRate,
                                     instances[result.ret].termInYears) # 500400

\* C17: every instance has loanAmount > 0, whatever accepted percentagePutDown
\* and assetValue it was constructed from.
C17_LoanAmountPositive ==
  \A h \in Handles : instances[h].loanAmount > 0

IsPosition == result.op = "findPositionByDate"

\* the adjusted schedule a position was looked up in
PositionSchedule == generateAdjustedSchedule(instances[result.this])

\* C18: findPositionByDate returns monthsElapsed = (year of currentDate - year
\* of loanStartDate) * 12 + (month of currentDate - month of loanStartDate),
\* whatever the day of the month of either date, and not clamped to the
\* length of the schedule.
C18_MonthsElapsedByYearAndMonth ==
  IsPosition =>
    result.ret.monthsElapsed =
      (result.currentDate.year - result.loanStartDate.year) * 12
      + (result.currentDate.month - result.loanStartDate.month)

\* a position asked for on a day of the month before the day the loan
\* started on, 29 months later by year and month
C18_Witness ==
  /\ IsPosition
  /\ result.currentDate.date < result.loanStartDate.date
  /\ result.ret.monthsElapsed = 29

\* C19: for every pair of dates, a current date before the start of the loan
\* or long after the payoff included, findPositionByDate uses a month index in
\* [0, scheduleLength - 1], so that the statement returned is a row of the
\* adjusted schedule and the 1-based currentMonth is in [1, scheduleLength].
C19_PositionWithinSchedule ==
  IsPosition =>
    /\ result.ret.currentMonth \in 1..Len(PositionSchedule)
    /\ result.ret.statement # undefined
    /\ result.ret.statement[1] = PositionSchedule[result.ret.currentMonth]

Unclamped(this, month) ==
  this.minimumPayment
  + (IF result.op = "generateAdjustedSchedule" THEN InForce(this, month) ELSE 0)

\* C22: in a row that is not clamped (not the row of month termInYears * 12,
\* and either not the last row or one that leaves a balance) the payment of an
\* adjusted schedule is the monthly payment plus the extra payments whose
\* startMonth is at or before the month, to the cent; in a standard schedule
\* the extra payments add nothing.
C22_PaymentIsMinimumPlusExtras ==
  IsSchedule =>
    LET this == instances[result.this]
    IN  \A k \in 1..Len(result.ret) :
          (k < this.termInYears * 12
           /\ (k < Len(result.ret) \/ result.ret[k].endingBalance > 0)) =>
            result.ret[k].payment = ToFixed(Unclamped(this, k), Cent)

\* an adjusted schedule with a row that carries an extra payment started in
\* an earlier month, and a row before the start of another
C22_Witness ==
  /\ IsAdjusted
  /\ Len(result.ret) > 2
  /\ LET this == instances[result.this]
     IN  /\ InForce(this, 2) >= Cent
         /\ InForce(this, 2) < InForce(this, this.termInYears * 12)
         /\ result.ret[2].payment = ToFixed(this.minimumPayment + InForce(this, 2), Cent)

C24_MonotonicPayoff ==
  IsSchedule =>
    \A k \in 1..Len(result.ret) :
      /\ result.ret[k].endingBalance <= result.ret[k].startingBalance
      /\ result.ret[k].amountTowardPrincipal >= 0

\* C25: a month is run only while the balance carried into it is above 0 and
\* generation stops at the first month that ends at 0.01 or less: every row has
\* startingBalance > 0 and every row other than the last has an ending
\* balance above 0.01 (so that no row follows one that ends at 0.01 or less).
C25_EarlyPayoffExit ==
  IsSchedule =>
    \A k \in 1..Len(result.ret) :
      /\ result.ret[k].startingBalance > 0
      /\ k < Len(result.ret) => result.ret[k].endingBalance > Cent

\* C26: in every row equityValue is assetValue less the ending balance, to
\* the cent; loanToValue is the ending balance over assetValue at 4 decimals;
\* loanToValuePercentage is that ratio as a percentage; equityPercentage is
\* equityValue over assetValue times 100 at 2 decimals; and the two
\* percentages sum to 100 to within 0.01.  The ratios are taken before the
\* ending balance is rounded, so against the emitted ending balance each
\* holds to half a unit of its last decimal plus half a cent, and equityValue
\* to a cent.
C26_EquityMetrics ==
  IsSchedule =>
    LET asset == instances[result.this].assetValue
    IN  \A k \in 1..Len(result.ret) :
          LET row    == result.ret[k]
              equity == asset * Dollar - row.endingBalance
          IN  /\ Abs(row.equityValue - equity) <= Cent
              /\ 2 * Abs(row.loanToValue * asset * RatioDiv - row.endingBalance)
                   <= asset * RatioDiv + Cent
              /\ row.loanToValuePercentage = row.loanToValue * 100
              /\ row.equityPercentage % PctCent = 0
              /\ 2 * Abs((row.equityPercentage \div PctCent) * asset * RatioDiv - equity)
                   <= asset * RatioDiv + Cent
              /\ Abs(row.loanToValuePercentage + row.equityPercentage
                     - 100 * 100 * PctCent) <= PctCent

\* a row of a loan with a down payment whose ratio is not a whole percentage
C26_Witness ==
  /\ IsSchedule
  /\ instances[result.this].loanAmount < instances[result.this].assetValue * Dollar
  /\ \E k \in 1..Len(result.ret) :
       /\ result.ret[k].endingBalance > 0
       /\ result.ret[k].loanToValue % 100 # 0
       /\ result.ret[k].equityValue > 0

\* C27: the rows of a schedule are numbered 1, 2, ... with no gap or repeat,
\* and the startingBalance of each row after the first is the endingBalance
\* of the row before it, as emitted.
C27_ScheduleContinuity ==
  IsSchedule =>
    \A k \in 1..Len(result.ret) :
      /\ result.ret[k].month = k
      /\ k > 1 => result.ret[k].startingBalance = result.ret[k - 1].endingBalance

\* a schedule of several rows whose balance after the first month is not a
\* whole number of cents before it is rounded up
C27_Witness ==
  /\ IsSchedule
  /\ Len(result.ret) > 2
  /\ result.ret[2].startingBalance > 0
  /\ LET this == instances[result.this]
     IN  /\ this.interestRate = 0
         /\ (this.loanAmount - this.minimumPayment) % Cent >= Cent \div 2
         /\ result.op = "generateSchedule"

\* the list in the opposite order
Reverse(list) == [k \in 1..Len(list) |-> list[Len(list) + 1 - k]]

\* the instance after the payments of the list are added to it one by one
RECURSIVE AddAll(_, _)
AddAll(this, payments) ==
  IF payments = <<>> THEN this
  ELSE AddAll([this EXCEPT !.extraPayments =
                 allExtraPayments(this, Head(payments).extraAmount,
                                  Head(payments).startMonth)],
              Tail(payments))

\* the instance with its extra payments added in the opposite order
AddedInReverse(this) ==
  AddAll([this EXCEPT !.extraPayments = <<>>], Reverse(this.extraPayments))

C29_ExtrasNeverSlowPayoff ==
  IsAdjusted =>
    LET this  == instances[result.this]
        std   == generateSchedule(this)
        first == this.extraPayments[1].startMonth
    IN  /\ Len(result.ret) <= Len(std)
        /\ \A k \in 1..Len(result.ret) :
             /\ result.ret[k].endingBalance <= std[k].endingBalance
             /\ k < first => result.ret[k] = std[k]

\* an adjusted schedule that is shorter than the standard one and ends a
\* month below it, on a loan whose balance would otherwise grow
C29_Witness ==
  /\ IsAdjusted
  /\ LET this == instances[result.this]
         std  == generateSchedule(this)
     IN  /\ Len(result.ret) > 1
         /\ result.ret[2].endingBalance < std[2].endingBalance
         /\ std[2].endingBalance > std[1].endingBalance

\* the first date is not before the second
NotBefore(d, e) ==
  \/ d.year > e.year
  \/ d.year = e.year /\ d.month > e.month
  \/ d.year = e.year /\ d.month = e.month /\ d.date >= e.date

\* C30: for a current date not before the start of the loan the position of
\* findPositionByDate is consistent: the statement is the row of month
\* currentMonth, currentBalance is its ending balance, and monthsRemaining is
\* scheduleLength - currentMonth + 1, so that monthsRemaining >= 1 and
\* percentageComplete < 100 also after the loan is paid off.
C30_PositionConsistent ==
  (IsPosition /\ NotBefore(result.currentDate, result.loanStartDate)) =>
    LET pos == result.ret
    IN  /\ pos.statement # undefined
        /\ pos.statement[1].month = pos.currentMonth
        /\ pos.currentBalance = pos.statement[1].endingBalance
        /\ pos.monthsRemaining = Len(PositionSchedule) - pos.currentMonth + 1
        /\ pos.monthsRemaining >= 1
        /\ pos.percentageComplete < 100 * 100 * PctCent

\* a position asked for long after the payoff of a schedule of several rows
C30_Witness ==
  /\ IsPosition
  /\ NotBefore(result.currentDate, result.loanStartDate)
  /\ Len(PositionSchedule) > 1
  /\ result.ret.monthsElapsed > Len(PositionSchedule)
  /\ result.ret.monthsRemaining = 1

====
